---- MODULE Spec2Model ----
(***************************************************************************)
(* Model of PersonalPASystem (Agent_design_UI/main..py): the task store    *)
(* tasks.csv, the schedule store schedule.csv, the progress log            *)
(* progress.csv and the operations add_task, update_task_status and        *)
(* migrate_incomplete_tasks (with _update_progress_log); and of            *)
(* TaskManagerTools (Agent_design_UI/toolsnotadded.py) with its own task   *)
(* file.                                                                   *)
(*                                                                         *)
(* A CSV file is the sequence of its data rows (the header row is left     *)
(* out, as the code skips it with rows[1:]).  A date string YYYY-MM-DD is  *)
(* the triple <<year, month, day>>; comparing two such strings is the      *)
(* lexicographic comparison of the triples.  productivity_score is kept in *)
(* hundredths, the precision round(..., 2) leaves.                         *)
(***************************************************************************)
EXTENDS Integers, Sequences, FiniteSets, TLC

VARIABLES tasks, schedule, progress, today, output, task_file, calls, exclusive

vars == <<tasks, schedule, progress, today, output, task_file, calls, exclusive>>

\* calls: the operation each process is in the middle of, with what it has
\* read so far; exclusive: whether the store is used as it is meant to be,
\* one operation at a time
client == <<calls, exclusive>>

-----------------------------------------------------------------------------
(* Bounds of the model *)

MaxTasks == 2

MaxRuns == 2

MaxTicks == 1

\* largest store the batch specification starts from
MaxBatch == 3

\* runs of the rollover job in a row on one day
MaxRepeat == 4

-----------------------------------------------------------------------------
(* Processes that call into one PersonalPASystem data directory *)

Procs == {1, 2}

IdleCall ==
    [op |-> "none", pc |-> "idle", rows |-> << >>, arg |-> << >>, val |-> 0,
     lost |-> FALSE]

NoCalls == [p \in Procs |-> IdleCall]

-----------------------------------------------------------------------------
(* Dates: datetime.strftime('%Y-%m-%d'), strptime and timedelta(days=1) *)

IsLeap(y) == (y % 4 = 0 /\ y % 100 # 0) \/ y % 400 = 0

DaysInMonth(y, m) ==
    IF m = 2 THEN (IF IsLeap(y) THEN 29 ELSE 28)
    ELSE IF m \in {4, 6, 9, 11} THEN 30 ELSE 31

\* due_date + timedelta(days=1), formatted back with strftime
NextDay(d) ==
    IF d[3] < DaysInMonth(d[1], d[2]) THEN <<d[1], d[2], d[3] + 1>>
    ELSE IF d[2] < 12 THEN <<d[1], d[2] + 1, 1>>
    ELSE <<d[1] + 1, 1, 1>>

\* row[7] <= today on two YYYY-MM-DD strings: character-wise, most
\* significant field first
DateLE(a, b) ==
    \/ a[1] < b[1]
    \/ a[1] = b[1] /\ a[2] < b[2]
    \/ a[1] = b[1] /\ a[2] = b[2] /\ a[3] <= b[3]

RECURSIVE DayAfter(_, _)
DayAfter(d, n) == IF n = 0 THEN d ELSE DayAfter(NextDay(d), n - 1)

\* the wall clock when the program is constructed, and the last day the
\* model lets the clock reach
FirstDay == <<2023, 12, 31>>

LastDay == DayAfter(FirstDay, MaxTicks)

\* the values a later datetime.now() of the same operation can return
ClockReads(now) == IF now = LastDay THEN {now} ELSE {now, NextDay(now)}

-----------------------------------------------------------------------------
(* Inputs *)

\* two days before the first day, the first day, the day after it
DueDates == {<<2023, 12, 29>>, <<2023, 12, 31>>, <<2024, 1, 1>>}

Titles == {"Complete 2 LeetCode problems"}

Descriptions == {"Focus on dynamic programming problems"}

Categories == {"DSA"}

Priorities == {1}

TimeBlocks == {"Core Learning Sessions"}

Statuses == {"pending", "in_progress", "completed"}

\* new_status is an unconstrained str
NewStatuses == Statuses \cup {"done"}

TaskIdArgs == 1..MaxTasks

-----------------------------------------------------------------------------
(* _add_default_schedule *)

Days == <<"Monday", "Tuesday", "Wednesday", "Thursday", "Friday", "Saturday", "Sunday">>

Blocks == <<
    [start_time |-> "06:00", end_time |-> "06:50",
     block_name |-> "Morning Routine & Mental Warm-Up", block_type |-> "routine"],
    [start_time |-> "06:50", end_time |-> "10:00",
     block_name |-> "Core Learning Sessions", block_type |-> "learning"],
    [start_time |-> "10:30", end_time |-> "14:00",
     block_name |-> "Project & Skill Application", block_type |-> "project"],
    [start_time |-> "14:00", end_time |-> "15:00",
     block_name |-> "Job Search & Networking", block_type |-> "career"],
    [start_time |-> "20:30", end_time |-> "21:00",
     block_name |-> "Reflection & Planning", block_type |-> "planning"] >>

DefaultSchedule ==
    [n \in 1..(Len(Days) * Len(Blocks)) |->
        LET day == Days[((n - 1) \div Len(Blocks)) + 1]
            b   == Blocks[((n - 1) % Len(Blocks)) + 1]
        IN [block_id |-> n, day |-> day,
            start_time |-> b.start_time, end_time |-> b.end_time,
            block_name |-> b.block_name, block_type |-> b.block_type,
            task_ids |-> ""]]

-----------------------------------------------------------------------------
(* add_task *)

Max(S) == CHOOSE x \in S : \A y \in S : y <= x

\* mutant: the header row counted among the data rows (len(rows) > 1)
NextId_HeaderCounted(rows) ==
    IF Len(rows) > 1
    THEN Max({rows[i].task_id : i \in 1..Len(rows)}) + 1
    ELSE 1

\* mutant: the largest stored id handed out again
NextId_NoIncrement(rows) ==
    IF Len(rows) > 0
    THEN Max({rows[i].task_id : i \in 1..Len(rows)})
    ELSE 1

\* next_id: max of the stored ids + 1, or 1 for a store with no data row
NextId(rows) ==
    IF Len(rows) > 0
    THEN Max({rows[i].task_id : i \in 1..Len(rows)}) + 1
    ELSE 1

NewTask(next_id, title, description, category, priority, due_date, time_block, now) ==
    [task_id |-> next_id, title |-> title, description |-> description,
     category |-> category, priority |-> priority, status |-> "pending",
     created_date |-> now, due_date |-> due_date, rollover_count |-> 0,
     time_block |-> time_block]

add_task(title, description, category, priority, due_date, time_block) ==
    /\ Len(tasks) < MaxTasks
    /\ LET next_id == NextId(tasks)
       IN /\ tasks' = Append(tasks,
                 NewTask(next_id, title, description, category, priority,
                         due_date, time_block, today))
          /\ output' = <<"added", next_id>>
    /\ UNCHANGED <<schedule, progress, today, task_file, client>>

-----------------------------------------------------------------------------
(* update_task_status *)

Matches(rows, task_id) == {i \in 1..Len(rows) : rows[i].task_id = task_id}

\* the row the loop stops at (break after the first match)
FirstMatch(rows, task_id) ==
    CHOOSE i \in Matches(rows, task_id) : \A j \in Matches(rows, task_id) : i <= j

\* mutant: completion leaves rollover_count alone
UpdateRow_KeepCount(row, new_status) == [row EXCEPT !.status = new_status]

UpdateRow(row, new_status) ==
    IF new_status = "completed"
    THEN [row EXCEPT !.status = new_status, !.rollover_count = 0]
    ELSE [row EXCEPT !.status = new_status]

\* mutant: the early return is missing, so an unknown id falls through to
\* the write-back and the success message
update_task_status_NoReturn(task_id, new_status) ==
    /\ IF Matches(tasks, task_id) = {}
       THEN /\ output' = <<"updated", task_id, new_status>>
            /\ UNCHANGED tasks
       ELSE /\ tasks' = [tasks EXCEPT ![FirstMatch(tasks, task_id)] =
                             UpdateRow(@, new_status)]
            /\ output' = <<"updated", task_id, new_status>>
    /\ UNCHANGED <<schedule, progress, today, task_file, client>>

update_task_status(task_id, new_status) ==
    /\ IF Matches(tasks, task_id) = {}
       THEN /\ output' = <<"not_found", task_id>>
            /\ UNCHANGED tasks
       ELSE /\ tasks' = [tasks EXCEPT ![FirstMatch(tasks, task_id)] =
                             UpdateRow(@, new_status)]
            /\ output' = <<"updated", task_id, new_status>>
    /\ UNCHANGED <<schedule, progress, today, task_file, client>>

-----------------------------------------------------------------------------
(* migrate_incomplete_tasks and _update_progress_log *)

\* mutant: a task due today is not yet carried over (< for <=)
IsOverdue_Strict(row, now) ==
    row.status = "pending" /\ row.due_date # now /\ DateLE(row.due_date, now)

\* mutant: every task that is not completed is carried over
IsOverdue_NotCompleted(row, now) == row.status # "completed" /\ DateLE(row.due_date, now)

IsOverdue(row, now) == row.status = "pending" /\ DateLE(row.due_date, now)

\* mutant: the due date catches up to the day after today
MigrateRow_CatchUp(row, now) ==
    IF IsOverdue(row, now)
    THEN [row EXCEPT !.rollover_count = @ + 1, !.due_date = NextDay(now)]
    ELSE row

MigrateRow(row, now) ==
    IF IsOverdue(row, now)
    THEN [row EXCEPT !.rollover_count = @ + 1, !.due_date = NextDay(@)]
    ELSE row

MigrateRows(rows, now) == [i \in 1..Len(rows) |-> MigrateRow(rows[i], now)]

\* mutant: every pending task counted, due or not
MigratedCount_AllPending(rows, now) ==
    Cardinality({i \in 1..Len(rows) : rows[i].status = "pending"})

MigratedCount(rows, now) == Cardinality({i \in 1..Len(rows) : IsOverdue(rows[i], now)})

\* the two COUNT(*) FILTER columns of the query over the tasks table; the
\* query tool answers an aggregate query with a header line and one line of
\* counts, so len(lines) >= 2 holds and the row is written
QueryCounts(rows, now) ==
    [completed |-> Cardinality({i \in 1..Len(rows) :
                      rows[i].status = "completed" /\ rows[i].due_date = now}),
     pending   |-> Cardinality({i \in 1..Len(rows) :
                      rows[i].status = "pending" /\ rows[i].due_date = now})]

\* round(x, 2) of the quotient n / d, in hundredths; ties go to the even digit
RoundHundredths(n, d) ==
    LET q == (n * 100) \div d
        r == (n * 100) % d
    IN IF 2 * r < d THEN q
       ELSE IF 2 * r > d THEN q + 1
       ELSE IF q % 2 = 0 THEN q ELSE q + 1

\* mutant: completed over pending instead of completed over the total
ProductivityScore_OverPending(completed, pending) ==
    LET total == completed + pending
    IN IF total > 0
       THEN RoundHundredths(completed * 100, IF pending > 0 THEN pending ELSE 1)
       ELSE 0

ProductivityScore(completed, pending) ==
    LET total == completed + pending
    IN IF total > 0 THEN RoundHundredths(completed * 100, total) ELSE 0

ProgressRow(rows, migrated_tasks, now) ==
    LET c == QueryCounts(rows, now)
    IN [date |-> now, completed_tasks |-> c.completed,
        pending_tasks |-> c.pending, rolled_over_tasks |-> migrated_tasks,
        productivity_score |-> ProductivityScore(c.completed, c.pending),
        notes |-> ""]

\* mutant: one row per date, a row of the same date is overwritten
UpdateProgressLog_Upsert(log, rows, migrated_tasks, now) ==
    IF \E k \in 1..Len(log) : log[k].date = now
    THEN [k \in 1..Len(log) |->
             IF log[k].date = now THEN ProgressRow(rows, migrated_tasks, now) ELSE log[k]]
    ELSE Append(log, ProgressRow(rows, migrated_tasks, now))

\* log after _update_progress_log(migrated_tasks) run over the stored rows
UpdateProgressLog(log, rows, migrated_tasks, now) ==
    Append(log, ProgressRow(rows, migrated_tasks, now))

\* one run; now2 is the day the clock shows in _update_progress_log
RunMigration(now2) ==
    /\ LET migrated_count == MigratedCount(tasks, today)
           rows == MigrateRows(tasks, today)
       IN /\ tasks' = rows
          /\ progress' = UpdateProgressLog(progress, rows, migrated_count, now2)
          /\ today' = now2
          /\ output' = <<"migrated", migrated_count>>
    /\ UNCHANGED <<schedule, task_file, client>>

migrate_incomplete_tasks ==
    /\ Len(progress) < MaxRuns
    /\ \E now2 \in ClockReads(today) : RunMigration(now2)

-----------------------------------------------------------------------------
(* The wall clock passing midnight between two operations *)

Tick ==
    /\ today # LastDay
    /\ today' = NextDay(today)
    /\ UNCHANGED <<tasks, schedule, progress, output, task_file, client>>

-----------------------------------------------------------------------------

Init ==
    /\ tasks = << >>
    /\ schedule = DefaultSchedule
    /\ progress = << >>
    /\ today = FirstDay
    /\ output = <<"none">>
    /\ task_file = << >>
    /\ calls = NoCalls
    /\ exclusive = TRUE

AddTask ==
    \E title \in Titles, description \in Descriptions, category \in Categories,
       priority \in Priorities, due_date \in DueDates, time_block \in TimeBlocks :
        add_task(title, description, category, priority, due_date, time_block)

UpdateTaskStatus ==
    \E task_id \in TaskIdArgs, new_status \in NewStatuses :
        update_task_status(task_id, new_status)

Next ==
    \/ AddTask
    \/ UpdateTaskStatus
    \/ migrate_incomplete_tasks
    \/ Tick

Spec == Init /\ [][Next]_vars

-----------------------------------------------------------------------------
(* The rollover job run over a store that add_task and update_task_status  *)
(* have already filled: every row of such a store has the id of its        *)
(* position, rollover_count 0 and any status and due date.                 *)

BatchRow(i, status, due_date) ==
    [NewTask(i, "Complete 2 LeetCode problems", "Focus on dynamic programming problems",
             "DSA", 1, due_date, "Core Learning Sessions", FirstDay)
        EXCEPT !.status = status]

BatchStores ==
    UNION {[1..n -> {BatchRow(0, s, d) : s \in NewStatuses, d \in DueDates}] : n \in 0..MaxBatch}

\* the message the last add_task or update_task_status left on the way there
BatchOutput(rows) ==
    IF Len(rows) = 0 THEN <<"none">>
    ELSE IF rows[Len(rows)].status = "pending" THEN <<"added", Len(rows)>>
    ELSE <<"updated", Len(rows), rows[Len(rows)].status>>

InitBatch ==
    /\ \E store \in BatchStores :
          tasks = [i \in 1..Len(store) |-> [store[i] EXCEPT !.task_id = i]]
    /\ schedule = DefaultSchedule
    /\ progress = << >>
    /\ today = FirstDay
    /\ output = BatchOutput(tasks)
    /\ task_file = << >>
    /\ calls = NoCalls
    /\ exclusive = TRUE

NextBatch ==
    \/ migrate_incomplete_tasks
    \/ Tick

SpecBatch == InitBatch /\ [][NextBatch]_vars

-----------------------------------------------------------------------------
(* The rollover job run again and again on one day over a filled store,    *)
(* with no other operation in between.                                     *)

RepeatMigration ==
    /\ Len(progress) < MaxRepeat
    /\ RunMigration(today)

SpecRepeat == InitBatch /\ [][RepeatMigration]_vars

-----------------------------------------------------------------------------
(* TaskManagerTools: the task file is a DataFrame read with pd.read_csv    *)
(* and written back with to_csv.  A notes cell is the tuple of its pieces, *)
(* the text given and one piece per " | Rolled over from <date>"; the      *)
(* empty tuple is the empty cell, which read_csv returns as NaN.           *)

Names == {"Revise graphs"}

ScheduledDates == {<<2023, 12, 31>>, <<2024, 1, 1>>}

ScheduledTimes == {"06:50"}

Durations == {60}

NotesArgs == {"", "after lunch"}

NotesCell(notes) == IF notes = "" THEN << >> ELSE <<notes>>

\* task_id: 1 for an empty frame, else df['task_id'].max() + 1
TMNextId(df) ==
    IF Len(df) = 0 THEN 1 ELSE Max({df[i].task_id : i \in 1..Len(df)}) + 1

TMNewTask(task_id, name, category, priority, scheduled_date, scheduled_time, duration_mins, status, notes) ==
    [task_id |-> task_id, name |-> name, category |-> category,
     priority |-> priority, scheduled_date |-> scheduled_date,
     scheduled_time |-> scheduled_time, duration_mins |-> duration_mins,
     status |-> status, completion_date |-> << >>, notes |-> NotesCell(notes),
     rollover_count |-> 0]

tm_add_task(name, category, priority, scheduled_date, scheduled_time, duration_mins, status, notes) ==
    /\ Len(task_file) < MaxTasks
    /\ LET task_id == TMNextId(task_file)
       IN /\ task_file' = Append(task_file,
                 TMNewTask(task_id, name, category, priority, scheduled_date,
                           scheduled_time, duration_mins, status, notes))
          /\ output' = <<"Task added successfully with ID", task_id>>
    /\ UNCHANGED <<tasks, schedule, progress, today, client>>

\* idx: the first row with the id
TMIndex(df, task_id) ==
    CHOOSE i \in 1..Len(df) :
        /\ df[i].task_id = task_id
        /\ \A j \in 1..Len(df) : df[j].task_id = task_id => i <= j

\* the row after update_task_status: status, completion_date and notes are
\* set, rollover_count is not touched
TMUpdateRow(row, status, notes, now) ==
    [row EXCEPT !.status = status,
                !.completion_date = IF status = "completed" THEN now ELSE @,
                !.notes = IF notes # "" THEN <<notes>> ELSE @]

tm_update_task_status(task_id, status, notes) ==
    /\ IF \A i \in 1..Len(task_file) : task_file[i].task_id # task_id
       THEN /\ output' = <<"Error: Task not found", task_id>>
            /\ UNCHANGED task_file
       ELSE /\ task_file' = [task_file EXCEPT ![TMIndex(task_file, task_id)] =
                                 TMUpdateRow(@, status, notes, today)]
            /\ output' = <<"Task updated to status", task_id, status>>
    /\ UNCHANGED <<tasks, schedule, progress, today, client>>

\* incomplete.index: scheduled on from_date and pending or in_progress
Incomplete(df, from_date) ==
    {i \in 1..Len(df) : /\ df[i].scheduled_date = from_date
                        /\ df[i].status \in {"pending", "in_progress"}}

RolloverRow(row, from_date, to_date) ==
    [row EXCEPT !.rollover_count = @ + 1,
                !.scheduled_date = to_date,
                !.notes = Append(@, from_date)]

\* NaN + " | Rolled over from ..." raises TypeError before to_csv: the call
\* ends with the file as it was
rollover_incomplete_tasks(from_date, to_date) ==
    /\ \A i \in Incomplete(task_file, from_date) : task_file[i].rollover_count < MaxRuns
    /\ IF \E i \in Incomplete(task_file, from_date) : task_file[i].notes = << >>
       THEN /\ output' = <<"TypeError">>
            /\ UNCHANGED task_file
       ELSE /\ task_file' = [i \in 1..Len(task_file) |->
                                 IF i \in Incomplete(task_file, from_date)
                                 THEN RolloverRow(task_file[i], from_date, to_date)
                                 ELSE task_file[i]]
            /\ output' = <<"Rolled over tasks", Cardinality(Incomplete(task_file, from_date)),
                           from_date, to_date>>
    /\ UNCHANGED <<tasks, schedule, progress, today, client>>

TMAddTask ==
    \E name \in Names, category \in Categories, priority \in Priorities,
       scheduled_date \in ScheduledDates, scheduled_time \in ScheduledTimes,
       duration_mins \in Durations, status \in NewStatuses, notes \in NotesArgs :
        tm_add_task(name, category, priority, scheduled_date, scheduled_time,
                    duration_mins, status, notes)

TMUpdateTaskStatus ==
    \E task_id \in TaskIdArgs, status \in NewStatuses, notes \in NotesArgs :
        tm_update_task_status(task_id, status, notes)

TMRollover ==
    \E from_date \in ScheduledDates, to_date \in ScheduledDates :
        rollover_incomplete_tasks(from_date, to_date)

InitTM ==
    /\ tasks = << >>
    /\ schedule = << >>
    /\ progress = << >>
    /\ today = FirstDay
    /\ output = <<"none">>
    /\ task_file = << >>
    /\ calls = NoCalls
    /\ exclusive = TRUE

NextTM ==
    \/ TMAddTask
    \/ TMUpdateTaskStatus
    \/ TMRollover
    \/ Tick

SpecTM == InitTM /\ [][NextTM]_vars

-----------------------------------------------------------------------------
(* The operations of PersonalPASystem step by step, as two processes run   *)
(* them against one data directory: each operation reads the whole task    *)
(* file, computes on the rows it has read, and writes later, with no lock  *)
(* held in between.                                                        *)

ConcStatuses == {"pending", "completed"}
ConcTaskIds == {1}

Idle(p) == calls[p].pc = "idle"

\* a process starts an operation when it is between operations; when the
\* store is used one operation at a time, only when no other is under way
MayBegin(p) == Idle(p) /\ (exclusive => \A q \in Procs : Idle(q))

InFlight(op) == Cardinality({q \in Procs : calls[q].op = op /\ ~Idle(q)})

\* the rows update_task_status writes back after its loop over the rows read
UpdatedRows(rows, task_id, new_status) ==
    IF Matches(rows, task_id) = {} THEN rows
    ELSE [rows EXCEPT ![FirstMatch(rows, task_id)] = UpdateRow(@, new_status)]

\* add_task, lines 123-132: read the file, compute next_id
add_task_read(p, due_date) ==
    /\ MayBegin(p)
    /\ Len(tasks) + InFlight("add_task") < MaxTasks
    /\ calls' = [calls EXCEPT ![p] =
                    [op |-> "add_task", pc |-> "read", rows |-> tasks,
                     arg |-> <<due_date>>, val |-> NextId(tasks), lost |-> FALSE]]
    /\ UNCHANGED <<tasks, schedule, progress, today, output, task_file, exclusive>>

\* add_task, lines 135-143: append the row to the file as it is now
add_task_append(p) ==
    /\ calls[p].op = "add_task" /\ calls[p].pc = "read"
    /\ tasks' = Append(tasks,
           NewTask(calls[p].val, "Complete 2 LeetCode problems",
                   "Focus on dynamic programming problems", "DSA", 1,
                   calls[p].arg[1], "Core Learning Sessions", today))
    /\ output' = <<"added", calls[p].val>>
    /\ calls' = [calls EXCEPT ![p] = IdleCall]
    /\ UNCHANGED <<schedule, progress, today, task_file, exclusive>>

\* update_task_status, lines 148-165: read the file, look for the id, and
\* return at once when it is not there
update_task_status_read(p, task_id, new_status) ==
    /\ MayBegin(p)
    /\ IF Matches(tasks, task_id) = {}
       THEN /\ output' = <<"not_found", task_id>>
            /\ calls' = [calls EXCEPT ![p] = IdleCall]
       ELSE /\ calls' = [calls EXCEPT ![p] =
                            [op |-> "update_task_status", pc |-> "read", rows |-> tasks,
                             arg |-> <<task_id, new_status>>, val |-> 0, lost |-> FALSE]]
            /\ UNCHANGED output
    /\ UNCHANGED <<tasks, schedule, progress, today, task_file, exclusive>>

\* update_task_status, lines 168-172: the rows read, with the one row
\* changed, replace the file; lost tells that this is not what the update
\* of the file as it is now would have given
update_task_status_write(p) ==
    /\ calls[p].op = "update_task_status" /\ calls[p].pc = "read"
    /\ LET written == UpdatedRows(calls[p].rows, calls[p].arg[1], calls[p].arg[2])
       IN /\ tasks' = written
          /\ calls' = [calls EXCEPT ![p] =
                          [IdleCall EXCEPT !.lost =
                              (written # UpdatedRows(tasks, calls[p].arg[1],
                                                     calls[p].arg[2]))]]
    /\ output' = <<"updated", calls[p].arg[1], calls[p].arg[2]>>
    /\ UNCHANGED <<schedule, progress, today, task_file, exclusive>>

\* migrate_incomplete_tasks, lines 176-181: read the file
migrate_read(p) ==
    /\ MayBegin(p)
    /\ Len(progress) + InFlight("migrate_incomplete_tasks") < MaxRuns
    /\ calls' = [calls EXCEPT ![p] =
                    [op |-> "migrate_incomplete_tasks", pc |-> "read", rows |-> tasks,
                     arg |-> << >>, val |-> 0, lost |-> FALSE]]
    /\ UNCHANGED <<tasks, schedule, progress, today, output, task_file, exclusive>>

\* migrate_incomplete_tasks, lines 184-200: the rows read, migrated, replace
\* the file
migrate_write(p) ==
    /\ calls[p].op = "migrate_incomplete_tasks" /\ calls[p].pc = "read"
    /\ LET written == MigrateRows(calls[p].rows, today)
       IN /\ tasks' = written
          /\ calls' = [calls EXCEPT ![p].pc = "written", ![p].rows = << >>,
                          ![p].val = MigratedCount(calls[p].rows, today),
                          ![p].lost = (written # MigrateRows(tasks, today))]
    /\ UNCHANGED <<schedule, progress, today, output, task_file, exclusive>>

\* migrate_incomplete_tasks, lines 203-205: _update_progress_log queries the
\* file as it is now and appends the row
migrate_log(p) ==
    /\ calls[p].op = "migrate_incomplete_tasks" /\ calls[p].pc = "written"
    /\ progress' = UpdateProgressLog(progress, tasks, calls[p].val, today)
    /\ output' = <<"migrated", calls[p].val>>
    /\ calls' = [calls EXCEPT ![p] = IdleCall]
    /\ UNCHANGED <<tasks, schedule, today, task_file, exclusive>>

InitConc ==
    /\ tasks = << >>
    /\ schedule = DefaultSchedule
    /\ progress = << >>
    /\ today = FirstDay
    /\ output = <<"none">>
    /\ task_file = << >>
    /\ calls = NoCalls
    /\ exclusive \in BOOLEAN

NextConc ==
    \E p \in Procs :
        \/ \E due_date \in {FirstDay} : add_task_read(p, due_date)
        \/ add_task_append(p)
        \/ \E task_id \in ConcTaskIds, new_status \in ConcStatuses :
              update_task_status_read(p, task_id, new_status)
        \/ update_task_status_write(p)
        \/ migrate_read(p)
        \/ migrate_write(p)
        \/ migrate_log(p)

SpecConc == InitConc /\ [][NextConc]_vars

-----------------------------------------------------------------------------
(* Calendar arithmetic used to state the properties: the number of a day   *)
(* counted from 0001-01-01, computed without NextDay and DateLE.           *)

LeapsBefore(y) == ((y - 1) \div 4) - ((y - 1) \div 100) + ((y - 1) \div 400)

DaysBeforeMonth(y, m) ==
    <<0, 31, 59, 90, 120, 151, 181, 212, 243, 273, 304, 334>>[m]
        + (IF m > 2 /\ IsLeap(y) THEN 1 ELSE 0)

DayNum(d) == 365 * (d[1] - 1) + LeapsBefore(d[1]) + DaysBeforeMonth(d[1], d[2]) + d[3]

\* pending and due on or before the day: the tasks a rollover run is to carry
DueForRollover(row, day) == row.status = "pending" /\ DayNum(row.due_date) <= DayNum(day)

RolloverSet(rows, day) == {i \in 1..Len(rows) : DueForRollover(rows[i], day)}

-----------------------------------------------------------------------------
(* C1: one run of migrate_incomplete_tasks moves every task that was       *)
(* pending with due_date <= today forward by exactly one day and adds      *)
(* exactly one to its rollover_count, however many days overdue it was.    *)

C1_MigrateOneDayOneIncrement ==
    [][migrate_incomplete_tasks =>
        /\ Len(tasks') = Len(tasks)
        /\ \A i \in RolloverSet(tasks, today) :
              /\ DayNum(tasks'[i].due_date) = DayNum(tasks[i].due_date) + 1
              /\ tasks'[i].rollover_count = tasks[i].rollover_count + 1]_vars

\* a run has migrated a task that was two days overdue: it is still
\* overdue after the run and its count went up by one only
C1_Witness ==
    /\ output[1] = "migrated" /\ output[2] >= 1
    /\ \E i \in 1..Len(tasks) :
          /\ tasks[i].status = "pending"
          /\ tasks[i].rollover_count = 1
          /\ tasks[i].due_date = <<2023, 12, 30>>

-----------------------------------------------------------------------------
(* C2: one run of migrate_incomplete_tasks leaves every task that is not   *)
(* pending or is due after today exactly as it was, changes only due_date  *)
(* and rollover_count of the tasks it migrates, and keeps the set and the  *)
(* order of the task records.                                              *)

C2_MigrateFrame ==
    [][migrate_incomplete_tasks =>
        /\ Len(tasks') = Len(tasks)
        /\ \A i \in 1..Len(tasks) :
              IF i \in RolloverSet(tasks, today)
              THEN [tasks'[i] EXCEPT !.due_date = tasks[i].due_date,
                                     !.rollover_count = tasks[i].rollover_count]
                       = tasks[i]
              ELSE tasks'[i] = tasks[i]]_vars

\* a run migrated one task and passed over a completed task that was due,
\* which stands before the migrated one in the store
C2_Witness ==
    /\ output = <<"migrated", 1>>
    /\ Len(tasks) = 2
    /\ tasks[1].status = "completed" /\ DayNum(tasks[1].due_date) < DayNum(today)
    /\ tasks[2].status = "pending" /\ tasks[2].rollover_count = 1

-----------------------------------------------------------------------------
(* C3: add_task gives the new task the id max(stored ids) + 1, or 1 for a  *)
(* store with no task, appends it with status pending and rollover_count   *)
(* 0, and leaves every stored record unchanged.                            *)

C3_AddTaskNextId ==
    [][AddTask =>
        LET n == Len(tasks)
            ids == {tasks[i].task_id : i \in 1..n}
        IN /\ Len(tasks') = n + 1
           /\ \A i \in 1..n : tasks'[i] = tasks[i]
           /\ IF n = 0
              THEN tasks'[n + 1].task_id = 1
              ELSE /\ \A x \in ids : tasks'[n + 1].task_id > x
                   /\ tasks'[n + 1].task_id - 1 \in ids
           /\ tasks'[n + 1].status = "pending"
           /\ tasks'[n + 1].rollover_count = 0]_vars

\* a second task was added behind a task that is no longer as it was added
C3_Witness ==
    /\ output = <<"added", 2>>
    /\ Len(tasks) = 2
    /\ tasks[2].task_id = 2 /\ tasks[2].status = "pending"
    /\ tasks[1].status = "completed"

-----------------------------------------------------------------------------
(* C4: update_task_status on a stored id with 'completed' sets that task's *)
(* status to completed and its rollover_count to 0; with any other status  *)
(* it changes the status alone; no other task and no other field changes.  *)

C4_UpdateStatusEffect ==
    [][\A task_id \in TaskIdArgs, new_status \in NewStatuses :
        (update_task_status(task_id, new_status)
            /\ \E i \in 1..Len(tasks) : tasks[i].task_id = task_id) =>
        /\ Len(tasks') = Len(tasks)
        /\ \A i \in 1..Len(tasks) :
              IF tasks[i].task_id = task_id
              THEN /\ tasks'[i].status = new_status
                   /\ tasks'[i].rollover_count =
                         (IF new_status = "completed" THEN 0
                          ELSE tasks[i].rollover_count)
                   /\ [tasks'[i] EXCEPT !.status = tasks[i].status,
                                        !.rollover_count = tasks[i].rollover_count]
                         = tasks[i]
              ELSE tasks'[i] = tasks[i]]_vars

\* the only task of the store was rolled over (the log says so) and then
\* marked completed: its count is back at 0
C4_Witness ==
    /\ output = <<"updated", 1, "completed">>
    /\ Len(tasks) = 1
    /\ tasks[1].status = "completed" /\ tasks[1].rollover_count = 0
    /\ DayNum(tasks[1].due_date) > DayNum(tasks[1].created_date) + 1
    /\ \E k \in 1..Len(progress) : progress[k].rolled_over_tasks = 1

\* a status other than completed was set on a task that keeps its count
C4_WitnessOther ==
    /\ output = <<"updated", 1, "in_progress">>
    /\ Len(tasks) >= 1
    /\ tasks[1].status = "in_progress" /\ tasks[1].rollover_count = 2

-----------------------------------------------------------------------------
(* C5: update_task_status with an id that is not in the task store reports *)
(* not-found and stops: task store, schedule store and progress log are    *)
(* the same before and after.                                              *)

C5_UnknownIdAborts ==
    [][\A task_id \in TaskIdArgs, new_status \in NewStatuses :
        (update_task_status(task_id, new_status)
            /\ \A i \in 1..Len(tasks) : tasks[i].task_id # task_id) =>
        /\ output' = <<"not_found", task_id>>
        /\ tasks' = tasks
        /\ schedule' = schedule
        /\ progress' = progress]_vars

\* the report was printed for id 2 while the store holds a task and a log
C5_Witness ==
    /\ output = <<"not_found", 2>>
    /\ Len(tasks) = 1 /\ tasks[1].task_id = 1
    /\ Len(progress) >= 1

-----------------------------------------------------------------------------
(* C6: every row of the progress log has productivity_score =              *)
(* completed / (completed + pending) x 100 of its own counts, within       *)
(* [0, 100], and 0 when completed + pending = 0.  Scores are in            *)
(* hundredths: 100 percent is 10000.                                       *)

\* the claim as written: the score is the exact quotient
C6_ScoreIsExactQuotient ==
    \A k \in 1..Len(progress) :
        LET r == progress[k]
            total == r.completed_tasks + r.pending_tasks
        IN /\ r.productivity_score \in 0..10000
           /\ total = 0 => r.productivity_score = 0
           /\ total > 0 => r.productivity_score * total = r.completed_tasks * 10000

\* as amended: the score is the quotient rounded to two decimal places
C6_ScoreIsRoundedQuotient ==
    \A k \in 1..Len(progress) :
        LET r == progress[k]
            total == r.completed_tasks + r.pending_tasks
            err == r.productivity_score * total - r.completed_tasks * 10000
        IN /\ r.productivity_score \in 0..10000
           /\ total = 0 => r.productivity_score = 0
           /\ total > 0 => (2 * err <= total /\ -2 * err <= total)

\* a row for one completed and two pending tasks: 33.33
C6_Witness ==
    \E k \in 1..Len(progress) :
        /\ progress[k].completed_tasks = 1
        /\ progress[k].pending_tasks = 2
        /\ progress[k].productivity_score = 3333

-----------------------------------------------------------------------------
(* C7: the progress log is append-only and a run is not idempotent: no     *)
(* step changes or removes a row, and each run of migrate_incomplete_tasks *)
(* appends exactly one row, dated with the day the clock shows when the    *)
(* row is written, so two runs on one day leave two rows of one date.      *)

C7_LogAppendOnly ==
    [][/\ Len(progress') >= Len(progress)
       /\ \A k \in 1..Len(progress) : progress'[k] = progress[k]
       /\ migrate_incomplete_tasks =>
             /\ Len(progress') = Len(progress) + 1
             /\ progress'[Len(progress')].date = today']_vars

\* two runs on the same day: two rows of the same date
C7_Witness ==
    /\ Len(progress) = 2
    /\ progress[1].date = progress[2].date
    /\ progress[2].date = today

-----------------------------------------------------------------------------
(* C8: the count a run of migrate_incomplete_tasks prints and writes as    *)
(* rolled_over_tasks of its progress row is the number of tasks that were  *)
(* pending with due_date <= today when the run began, which is the number  *)
(* of records whose rollover_count the run changed.                        *)

C8_MigratedCount ==
    [][migrate_incomplete_tasks =>
        LET k == Cardinality(RolloverSet(tasks, today))
        IN /\ output' = <<"migrated", k>>
           /\ progress'[Len(progress')].rolled_over_tasks = k
           /\ Len(tasks') = Len(tasks)
           /\ k = Cardinality({i \in 1..Len(tasks) :
                     tasks'[i].rollover_count # tasks[i].rollover_count})]_vars

\* a run that carried one of two pending tasks: the other is not yet due
C8_Witness ==
    /\ output = <<"migrated", 1>>
    /\ Len(progress) >= 1
    /\ progress[Len(progress)].rolled_over_tasks = 1
    /\ Len(tasks) = 2
    /\ tasks[1].status = "pending" /\ tasks[2].status = "pending"
    /\ tasks[1].rollover_count = 0 /\ tasks[2].rollover_count = 1

-----------------------------------------------------------------------------
(* C9: starting from the empty store, task ids are pairwise distinct and   *)
(* handed out in increasing order: a record's id is greater than the id of *)
(* every record added before it (records are appended and never removed).  *)

C9_IdsIncreasing ==
    \A i, j \in 1..Len(tasks) : i < j => tasks[i].task_id < tasks[j].task_id

\* two tasks in the store after all three operations have run
C9_Witness ==
    /\ Len(tasks) = 2
    /\ tasks[1].task_id # tasks[2].task_id
    /\ tasks[1].status = "completed"
    /\ Len(progress) >= 1

-----------------------------------------------------------------------------
(* C10: the status of every stored task is one of pending, in_progress,    *)
(* completed, whatever new_status update_task_status is called with.       *)

C10_StatusInEnum ==
    \A i \in 1..Len(tasks) : tasks[i].status \in Statuses

-----------------------------------------------------------------------------
(* C11: in the TaskManagerTools store every task with status completed has *)
(* rollover_count 0 after any sequence of add_task, update_task_status and *)
(* rollover_incomplete_tasks, because a rollover adds exactly one to the   *)
(* tasks it carries and update_task_status(task_id, 'completed') resets    *)
(* the count to 0.                                                         *)

C11_CompletedHasZeroCount ==
    \A i \in 1..Len(task_file) :
        task_file[i].status = "completed" => task_file[i].rollover_count = 0

-----------------------------------------------------------------------------
(* C12: runs of migrate_incomplete_tasks repeated on one day reach a       *)
(* fixpoint.  A pending task due k >= 0 days before today is migrated by   *)
(* the first k + 1 runs and by no later run: after r runs its count is     *)
(* min(r, k + 1), and once it was passed over its due date is the day      *)
(* after today.  When no pending task is due on or before today a run      *)
(* migrates 0 tasks and leaves the task store as it is; that is so after   *)
(* at most LongestOverdue + 1 runs.                                        *)

Min(a, b) == IF a <= b THEN a ELSE b

\* days between the earliest due date of a store and the day of the runs
LongestOverdue == Max({DayNum(FirstDay) - DayNum(d) : d \in DueDates})

\* stores start with rollover_count 0, so the count is the number of runs
\* that migrated the task and due_date - count is the first due date
C12_RunsSoFar ==
    \A i \in 1..Len(tasks) :
        LET runs == Len(progress)
            first_due == DayNum(tasks[i].due_date) - tasks[i].rollover_count
            k == DayNum(today) - first_due
        IN IF tasks[i].status = "pending" /\ k >= 0
           THEN /\ tasks[i].rollover_count = Min(runs, k + 1)
                /\ runs >= k + 1 => DayNum(tasks[i].due_date) = DayNum(today) + 1
           ELSE tasks[i].rollover_count = 0

C12_RepeatReachesFixpoint ==
    /\ [](C12_RunsSoFar
          /\ (Len(progress) >= LongestOverdue + 1 => RolloverSet(tasks, today) = {}))
    /\ [][(RepeatMigration /\ RolloverSet(tasks, today) = {}) =>
             (tasks' = tasks /\ output' = <<"migrated", 0>>
                /\ progress'[Len(progress')].rolled_over_tasks = 0)]_vars

\* a task first due two days ago after four runs: migrated by three of
\* them, due tomorrow, and the fourth run migrated nothing
C12_Witness ==
    /\ Len(progress) = 4
    /\ progress[3].rolled_over_tasks >= 1
    /\ progress[4].rolled_over_tasks = 0
    /\ output = <<"migrated", 0>>
    /\ \E i \in 1..Len(tasks) :
          /\ tasks[i].status = "pending"
          /\ tasks[i].rollover_count = 3
          /\ tasks[i].due_date = <<2024, 1, 1>>

-----------------------------------------------------------------------------
(* C14: the progress row a run of migrate_incomplete_tasks appends is      *)
(* computed from the task store after the migration was written:           *)
(* completed_tasks is the number of completed tasks due today, and         *)
(* pending_tasks is the number of tasks that were pending and due the day  *)
(* before today when the run began; the tasks that were pending and due    *)
(* today have moved to tomorrow and are not counted.                       *)

CompletedDue(rows, day) ==
    {i \in 1..Len(rows) : rows[i].status = "completed" /\ rows[i].due_date = day}

PendingDueDayBefore(rows, day) ==
    {i \in 1..Len(rows) : /\ rows[i].status = "pending"
                          /\ DayNum(rows[i].due_date) = DayNum(day) - 1}

C14_RowCountsAfterMigration ==
    [][migrate_incomplete_tasks =>
        LET row == progress'[Len(progress')]
        IN /\ row.completed_tasks = Cardinality(CompletedDue(tasks, today))
           /\ row.pending_tasks = Cardinality(PendingDueDayBefore(tasks, today))]_vars

\* the same for the runs whose two readings of the clock fall on one day
C14_SameDayRowCounts ==
    [][(migrate_incomplete_tasks /\ today' = today) =>
        LET row == progress'[Len(progress')]
        IN /\ row.date = today
           /\ row.completed_tasks = Cardinality(CompletedDue(tasks, today))
           /\ row.pending_tasks = Cardinality(PendingDueDayBefore(tasks, today))]_vars

-----------------------------------------------------------------------------
(* C13: the task store is not safe under concurrent invocation.  Used one  *)
(* operation at a time, no two records ever carry the same id and no write *)
(* ever discards another operation's change; with two processes there is   *)
(* an interleaving of two add_task calls that leaves two records with one  *)
(* id, and one of update_task_status with migrate_incomplete_tasks, both   *)
(* reading before either writes, that loses the earlier writer's change.   *)

DuplicateIds(rows) ==
    \E i, j \in 1..Len(rows) : i # j /\ rows[i].task_id = rows[j].task_id

C13_SequentialUseIsSafe ==
    exclusive => (~DuplicateIds(tasks) /\ \A p \in Procs : ~calls[p].lost)

\* two records with id 1, and the last message says task 1 was updated to
\* 'completed' while the rollover job of the other process, which had read
\* the file before that update, has written the task back as pending
C13_Witness ==
    /\ ~exclusive
    /\ DuplicateIds(tasks)
    /\ output = <<"updated", 1, "completed">>
    /\ \E q \in Procs :
          /\ calls[q].op = "migrate_incomplete_tasks"
          /\ calls[q].pc = "written" /\ calls[q].lost
    /\ tasks[1].status = "pending"

====
